---------------------------- MODULE Spec2Model ----------------------------
(***************************************************************************)
(* The quiz generation flows of learn_pydanticai.                          *)
(*                                                                         *)
(*   lumi_system_02.py  run_lumi_flow: extraction (update_requirements),   *)
(*                      generation and validation (tutor_agent with        *)
(*                      validate_question_rigor), persistence (aggregate   *)
(*                      the largest sequence number, insert one by one).   *)
(*   lumi_system.py     run_lumi_system: tutor_agent with                  *)
(*                      master_validation_loop (validate_latex_format on   *)
(*                      every question, then the reviewer's critique).     *)
(*                                                                         *)
(*   database.py        MongoDB: connect_db, close_db, get_db and the      *)
(*                      collection accessors.                              *)
(*                                                                         *)
(* A run executes one of the two scripts (variable script); Spec starts    *)
(* where main() has connected the database.  LatexSpec applies             *)
(* validate_latex_format to one text, DbSpec calls the methods of MongoDB  *)
(* in any order.                                                           *)
(*                                                                         *)
(* Strings whose characters matter (grade values, subjects, identifiers)   *)
(* are sequences of one-character strings, so that str.replace, the        *)
(* f-string formatting, $split and $toInt are computed, not assumed.       *)
(***************************************************************************)
EXTENDS Integers, Sequences, FiniteSets, TLC

\* ------------------------------------------------------------------ bounds

\* A new invocation of run_lumi_flow starts only while the questions
\* collection holds fewer documents than this.
MaxStored == 2

\* Largest number of questions the model returns in one QuestionBank, and the
\* largest number_of_questions the extractor passes.
MaxBatch == 2

\* Largest total number of characters in the question texts and explanations
\* of one QuestionBank of lumi_system.py.
MaxChars == 4

\* Largest number of characters of a text given to validate_latex_format on
\* its own.
MaxText == 4

\* Largest number of AsyncIOMotorClient objects connect_db creates in a run.
MaxClients == 2

\* ------------------------------------------------- characters and strings

Digit == <<"0", "1", "2", "3", "4", "5", "6", "7", "8", "9">>

RECURSIVE DigitsOf(_)
\* str(n) for n >= 0, as in the format specification d.
DigitsOf(n) ==
    IF n < 10 THEN << Digit[n + 1] >>
    ELSE DigitsOf(n \div 10) \o << Digit[(n % 10) + 1] >>

RECURSIVE ZeroPad(_, _)
\* The fill of a format specification 0<w>d: zeros on the left up to width w,
\* nothing cut when the digits are longer.
ZeroPad(s, w) == IF Len(s) >= w THEN s ELSE ZeroPad(<<"0">> \o s, w)

\* Faulty variant: a width of five.
Format05d(n) == ZeroPad(DigitsOf(n), 5)

\* f"{max_number:06d}"
Format06d(n) == ZeroPad(DigitsOf(n), 6)

RECURSIVE Replace(_, _)
\* str.replace(c, "") for a one-character c.
Replace(s, c) ==
    IF s = <<>> THEN <<>>
    ELSE IF Head(s) = c THEN Replace(Tail(s), c)
    ELSE <<Head(s)>> \o Replace(Tail(s), c)

RECURSIVE Split(_, _)
\* $split: the pieces of s between the occurrences of the separator c.
Split(s, c) ==
    IF s = <<>> THEN << <<>> >>
    ELSE LET rest == Split(Tail(s), c) IN
         IF Head(s) = c THEN << <<>> >> \o rest
         ELSE << <<Head(s)>> \o Head(rest) >> \o Tail(rest)

DigitValue(c) == CHOOSE d \in 0..9 : Digit[d + 1] = c

RECURSIVE ToInt(_)
\* $toInt of a string of decimal digits.
ToInt(s) ==
    IF s = <<>> THEN 0
    ELSE 10 * ToInt(SubSeq(s, 1, Len(s) - 1)) + DigitValue(s[Len(s)])

\* {'$toInt': {'$arrayElemAt': [{'$split': ['$question_id', '_']}, -1]}}
NumericPart(question_id) ==
    LET parts == Split(question_id, "_") IN ToInt(parts[Len(parts)])

LowerCase == <<"a","b","c","d","e","f","g","h","i","j","k","l","m",
               "n","o","p","q","r","s","t","u","v","w","x","y","z">>
UpperCase == <<"A","B","C","D","E","F","G","H","I","J","K","L","M",
               "N","O","P","Q","R","S","T","U","V","W","X","Y","Z">>

\* str.upper(), character by character.
Upper(s) ==
    [ i \in DOMAIN s |->
        IF \E k \in DOMAIN LowerCase : LowerCase[k] = s[i]
        THEN UpperCase[CHOOSE k \in DOMAIN LowerCase : LowerCase[k] = s[i]]
        ELSE s[i] ]

\* sub in s
Contains(s, sub) ==
    \E i \in 1..(Len(s) - Len(sub) + 1) : SubSeq(s, i, i + Len(sub) - 1) = sub

\* ------------------------------------------------------------ data models

\* class Grade(str, Enum): the values.
Grade ==
    { <<"6">>, <<"7">>, <<"8">>, <<"9">>, <<"1", "0">>, <<"1", "1">>,
      <<"1", "2">>, <<"9", "9">> }

\* class QuestionDifficulty(str, Enum): the values.
QuestionDifficulty == {"Beginner", "Intermediate", "Advanced"}

\* UserRequirements(): the dataclass defaults.
UserRequirements ==
    [ grade |-> <<"6">>, subject |-> <<>>, reference |-> "", topic |-> "",
      subtopic |-> "None", difficulty |-> "Beginner",
      number_of_questions |-> 1 ]

\* The arguments the extractor model passes to the update_requirements tool.
\* The tool's signature types grade and difficulty by their enums; the other
\* arguments are free (number_of_questions is any int).
UpdateArgs ==
    [ grade : { <<"9">>, <<"1", "1">> },
      subject : { <<"A", " ", "1">>, <<"A", "1">> },
      reference : {"extracted"},
      topic : {"polynomials"},
      subtopic : {"factoring"},
      difficulty : {"Advanced"},
      number_of_questions : 0..MaxBatch ]

\* The same, all for one (grade, subject) bucket.
OneBucketArgs ==
    { a \in UpdateArgs : a.grade = <<"9">> /\ a.subject = <<"A", " ", "1">> }

\* The curriculum collection: read-only reference data.  One record carries a
\* reference, one matches without a reference field, grade 11 has no record.
Curriculum ==
    << [grade |-> <<"9">>, subject |-> <<"A", " ", "1">>, reference |-> "syllabus"],
       [grade |-> <<"9">>, subject |-> <<"A", "1">>] >>

\* find_one(filter, {"reference": 1, "_id": 0}): <<>> for None, else the
\* first matching document, projected on its reference field.
FindOneReference(coll, grade, subject) ==
    LET hits == SelectSeq(coll, LAMBDA d : d.grade = grade /\ d.subject = subject)
    IN  IF hits = <<>> THEN <<>>
        ELSE << [k \in (DOMAIN hits[1]) \cap {"reference"} |-> hits[1][k]] >>

\* QuestionDocument, as far as the flow reads it.  The flow never looks into
\* a question's text, so the i-th question of a bank is given the text "q"i.
QuestionDocument(i) == [question_text |-> <<"q", Digit[i + 1]>>]

\* QuestionBank.questions: a list of any length (default_factory=list; no
\* length is asked of the model's output).
QuestionBank == { [i \in 1..n |-> QuestionDocument(i)] : n \in 0..MaxBatch }

\* QuestionOption: id and text are any strings (text of at least one
\* character); nothing relates the ids of a question's options.
QuestionOption == [ id : { <<"A">>, <<"B">> }, text : { <<"t">> } ]

\* QuestionDocument with its options and correct_option, a free string that
\* the description asks to be the comma-joined ids of the correct options.
OptionDocument ==
    [ question_text : { <<"q">> },
      options : { << [id |-> <<"A">>, text |-> <<"t">>], o >> : o \in QuestionOption },
      correct_option : { <<"A">>, <<"A", ",", "B">>, <<"C">>, <<"A", ",", "C">> } ]

\* QuestionBank.questions of such documents, one at least.
OptionBank == UNION { [1..n -> OptionDocument] : n \in 1..MaxBatch }

\* What the reviewing model may answer.
ReviewTexts ==
    { <<"F","I","X",":"," ","b">>, <<"f","i","x",":">>, <<"a"," ","F","i","x",":">>,
      <<"o","k">>, <<"F","I","X">>, <<"f","i","x"," ",":">> }

\* ValidationResult of the validator agent of lumi_system_02.py;
\* error_message is Optional[str], None is formatted as "None".
ValidationResult ==
    [ is_valid : BOOLEAN,
      error_message : { <<"N","o","n","e">>, <<"b","a","d">>, <<"F","I","X",":"," ","b">> } ]

\* Two of them: one that accepts, one that rejects.
PlainVerdicts ==
    { [is_valid |-> TRUE, error_message |-> <<"N","o","n","e">>],
      [is_valid |-> FALSE, error_message |-> <<"b","a","d">>] }

\* The characters of the texts of lumi_system.py's questions: the delimiter,
\* the backslash that escapes it, and a disallowed character.
Alphabet == {"$", "\\", "<"}

\* The strings of at most MaxChars characters.
Strings == UNION { [1..l -> Alphabet] : l \in 0..MaxChars }

\* The ways to cut a string of length len into k consecutive fields (k >= 1):
\* the end positions of the first k-1 fields.
Cuts(len, k) ==
    { c \in [1..(k - 1) -> 0..len] : \A i \in 1..(k - 2) : c[i] <= c[i + 1] }

\* The i-th of the k fields of s cut at c.
Field(s, c, i, k) ==
    SubSeq(s, (IF i = 1 THEN 0 ELSE c[i - 1]) + 1, IF i = k THEN Len(s) ELSE c[i])

\* QuestionBank of lumi_system.py, as far as master_validation_loop reads it:
\* the bank of n questions whose texts, question_text then explanation,
\* question by question, are the fields of s cut at c.
LumiQuestionBank(n, s, c) ==
    [ i \in 1..n |-> [ question_text |-> Field(s, c, 2 * i - 1, 2 * n),
                       explanation |-> Field(s, c, 2 * i, 2 * n) ] ]

\* The characters of a text given to validate_latex_format on its own.
LatexAlphabet == {"$", "\\", "<", ">", "x"}

\* The texts of at most MaxText characters.
Texts == UNION { [1..l -> LatexAlphabet] : l \in 0..MaxText }

\* The collection accessors of database.py and the collection each indexes.
Accessors ==
    [ get_sessions_collection |-> "sessions",
      get_messages_collection |-> "messages",
      get_short_term_memory_collection |-> "short_term_memory",
      get_progress_collection |-> "student_progress",
      get_questions_collection |-> "questions",
      get_quiz_sessions_collection |-> "quiz_sessions",
      get_subjects_collection |-> "subjects",
      get_curriculum_collection |-> "curriculum",
      get_quizzes_collection |-> "quizzes" ]

\* Invocation slots: two invocations can be in progress at once.
Flows == {1, 2}

\* Agent(...) without retries=: the framework's default of one retry.
max_result_retries == 1

\* Faulty variant: the retry count is never looked at.
ExceededNever(r) == FALSE

\* The framework ends the run once the retries pass max_result_retries.
Exceeded(r) == r > max_result_retries

\* ------------------------------------------------------------------ state

VARIABLES
    script,        \* the script that is run
    lumi_pc,       \* where run_lumi_system stands
    bank,          \* the QuestionBank the tutor model returned
    lumi_retries,  \* output-validation retries used by lumi_system.tutor_agent
    lumi_reason,   \* the message of a ModelRetry, until it is sent to the model
    critique,      \* <<critique.output>> once the reviewer has answered
    lumi_output,   \* what run_lumi_system returned: <<bank>>, or <<>> for None
    questions,     \* the questions collection, in insertion order
    pc,            \* pc[f]: where invocation f of run_lumi_flow stands
    shared_deps,   \* shared_deps[f]: its UserRequirements
    updated,       \* updated[f]: update_requirements has been called
    retries,       \* retries[f]: output-validation retries used by tutor_agent
    retry_prompt,  \* retry_prompt[f]: the message of a ModelRetry, until it is
                   \* sent to the model
    validation,    \* validation[f]: <<validation.output>> while the validator's
                   \* answer is at hand
    final_question,\* final_question[f]: the QuestionBank in hand
    result,        \* result[f]: the aggregation's result list
    max_number,    \* max_number[f]
    todo,          \* todo[f]: the questions the for loop has yet to visit
    inserted,      \* inserted[f]: identifiers f has inserted, in order (history)
    latex_text,    \* the argument of a call of validate_latex_format
    latex_pc,      \* "call" before the call, then "returned" or "raised"
    latex_raised,  \* <<message>> of the ModelRetry it raised
    client,        \* MongoDB.client: 0 for None, else the k-th client created
    db,            \* MongoDB.db: 0 for None, else the handle of client k
    created,       \* the number of clients created so far
    pinged,        \* the clients whose ping was answered (history)
    closed,        \* the clients that were closed
    db_outcome     \* the last call on the database module and how it ended

lumi_vars == << lumi_pc, bank, lumi_retries, lumi_reason, critique, lumi_output >>

flow_vars ==
    << questions, pc, shared_deps, updated, retries, retry_prompt, validation,
       final_question, result, max_number, todo, inserted >>

latex_vars == << latex_text, latex_pc, latex_raised >>

db_vars == << client, db, created, pinged, closed, db_outcome >>

vars == << script, lumi_vars, flow_vars, latex_vars, db_vars >>

\* No call of validate_latex_format on its own.
LatexIdle ==
    /\ latex_text = <<>>
    /\ latex_pc = "idle"
    /\ latex_raised = <<>>

\* How a call on the database module ended: returned or raised, with the
\* handle (and the collection's name) an accessor returned.
Outcome(call, kind, handle, name) ==
    [call |-> call, kind |-> kind, handle |-> handle, name |-> name]

\* class MongoDB: client and db are None.
DbNone ==
    /\ client = 0
    /\ db = 0
    /\ created = 0
    /\ pinged = {}
    /\ closed = {}
    /\ db_outcome = Outcome("none", "none", 0, "")

\* main(): await MongoDB.connect_db() has returned.
DbConnected ==
    /\ client = 1
    /\ db = 1
    /\ created = 1
    /\ pinged = {1}
    /\ closed = {}
    /\ db_outcome = Outcome("connect_db", "returned", 0, "")

\* Nothing is running in either script.
ScriptsIdle ==
    /\ lumi_pc = "idle"
    /\ bank = <<>>
    /\ lumi_retries = 0
    /\ lumi_reason = <<>>
    /\ critique = <<>>
    /\ lumi_output = <<>>
    /\ validation = [f \in Flows |-> <<>>]
    /\ questions = <<>>
    /\ pc = [f \in Flows |-> "idle"]
    /\ shared_deps = [f \in Flows |-> UserRequirements]
    /\ updated = [f \in Flows |-> FALSE]
    /\ retries = [f \in Flows |-> 0]
    /\ retry_prompt = [f \in Flows |-> <<>>]
    /\ final_question = [f \in Flows |-> <<>>]
    /\ result = [f \in Flows |-> <<>>]
    /\ max_number = [f \in Flows |-> 0]
    /\ todo = [f \in Flows |-> <<>>]
    /\ inserted = [f \in Flows |-> <<>>]

Init ==
    /\ script \in {"lumi_system", "lumi_system_02"}
    /\ ScriptsIdle
    /\ LatexIdle
    /\ DbConnected

\* --------------------------------------------------------- run_lumi_flow

\* The caller invokes run_lumi_flow: shared_deps = UserRequirements();
\* await extractor_agent.run(...)
StartFlow(f) ==
    /\ script = "lumi_system_02"
    /\ pc[f] = "idle"
    /\ Len(questions) < MaxStored
    /\ pc' = [pc EXCEPT ![f] = "extract"]
    /\ shared_deps' = [shared_deps EXCEPT ![f] = UserRequirements]
    /\ UNCHANGED << questions, updated, retries, retry_prompt, validation, final_question,
                    result, max_number, todo, inserted >>

\* Faulty variant: the curriculum's reference is never taken.
UpdatedDepsNoLookup(args) == args

\* The value ctx.deps holds when update_requirements(args) returns.
UpdatedDeps(args) ==
    LET curriculum_doc == FindOneReference(Curriculum, args.grade, args.subject)
    IN  [ args EXCEPT !.reference =
            IF curriculum_doc # <<>> /\ DOMAIN curriculum_doc[1] # {}
               /\ "reference" \in DOMAIN curriculum_doc[1]
            THEN curriculum_doc[1].reference
            ELSE args.reference ]

\* The extractor model calls the update_requirements tool with one of Args.
UpdateRequirements(f, Args) ==
    /\ pc[f] = "extract"
    /\ ~updated[f]
    /\ \E args \in Args :
         shared_deps' = [shared_deps EXCEPT ![f] = UpdatedDeps(args)]
    /\ updated' = [updated EXCEPT ![f] = TRUE]
    /\ UNCHANGED << questions, pc, retries, retry_prompt, validation, final_question,
                    result, max_number, todo, inserted >>

\* extractor_agent.run returns (whether or not the tool was called).
ExtractorReturns(f) ==
    /\ pc[f] = "extract"
    /\ pc' = [pc EXCEPT ![f] = "generate"]
    /\ UNCHANGED << questions, shared_deps, updated, retries, retry_prompt, validation,
                    final_question, result, max_number, todo, inserted >>

\* tutor_agent.run: the model is sent the request, with the retry message if
\* there is one, and answers with a QuestionBank.
Generate(f, Banks) ==
    /\ pc[f] = "generate"
    /\ \E b \in Banks :
         final_question' = [final_question EXCEPT ![f] = b]
    /\ pc' = [pc EXCEPT ![f] = "validate"]
    /\ validation' = [validation EXCEPT ![f] = <<>>]
    /\ retry_prompt' = [retry_prompt EXCEPT ![f] = <<>>]
    /\ UNCHANGED << questions, shared_deps, updated, retries,
                    result, max_number, todo, inserted >>

\* Faulty variant: whatever the reviewer says, the batch goes through.
RigorRejectsNever(v) == FALSE

\* validate_question_rigor: raise ModelRetry unless the reviewer says valid.
RigorRejects(v) == ~v.is_valid

\* f"Validation failed: {validation.output.error_message}"
RigorMessage(v) == <<"Validation failed: ">> \o v.error_message

\* The output validator runs; a ModelRetry costs one retry, and one more than
\* max_result_retries ends the run with an exception.
ValidateQuestionRigor(f, Verdicts) ==
    /\ pc[f] = "validate"
    /\ \E v \in Verdicts :
         /\ validation' = [validation EXCEPT ![f] = <<v>>]
         /\ IF RigorRejects(v)
            THEN /\ retries' = [retries EXCEPT ![f] = @ + 1]
                 /\ retry_prompt' = [retry_prompt EXCEPT ![f] = RigorMessage(v)]
                 /\ pc' = [pc EXCEPT ![f] =
                             IF Exceeded(retries[f] + 1) THEN "raised" ELSE "generate"]
            ELSE /\ pc' = [pc EXCEPT ![f] = "aggregate"]
                 /\ UNCHANGED << retries, retry_prompt >>
    /\ UNCHANGED << questions, shared_deps, updated, final_question, result,
                    max_number, todo, inserted >>

\* $match on grade and subject.
Matching(coll, grade, subject) ==
    SelectSeq(coll, LAMBDA d : d.grade = grade /\ d.subject = subject)

\* $max of a non-empty set of numbers.
Max(S) == CHOOSE m \in S : \A n \in S : n <= m

\* The pipeline: $match, $project numeric_part, $group with $max; to_list.
\* No matching document gives the empty list.
Aggregate(coll, grade, subject) ==
    LET docs == Matching(coll, grade, subject)
    IN  IF docs = <<>> THEN <<>>
        ELSE << [max_number |->
                   Max({ NumericPart(docs[i].question_id) : i \in DOMAIN docs })] >>

\* Faulty variant: the line max_number += 1 before the loop is missing.
FirstNumberNotIncremented(r) == IF r # <<>> THEN r[1].max_number ELSE 1

\* max_number = result[0]['max_number'] if result else 1; max_number += 1
FirstNumber(r) == (IF r # <<>> THEN r[1].max_number ELSE 1) + 1

\* result = await aggregate(...).to_list(); then the two lines above, up to
\* the for loop.
ReadMaxNumber(f) ==
    /\ pc[f] = "aggregate"
    /\ LET r == Aggregate(questions, shared_deps[f].grade, shared_deps[f].subject)
       IN  /\ result' = [result EXCEPT ![f] = r]
           /\ max_number' = [max_number EXCEPT ![f] = FirstNumber(r)]
    /\ todo' = [todo EXCEPT ![f] = final_question[f]]
    /\ pc' = [pc EXCEPT ![f] = "insert"]
    /\ validation' = [validation EXCEPT ![f] = <<>>]
    /\ UNCHANGED << questions, shared_deps, updated, retries, retry_prompt,
                    final_question, inserted >>

\* f"GR_{grade.value}_{subject.replace(" ", "")}_{max_number:06d}"
QuestionId(grade, subject, n) ==
    <<"G", "R", "_">> \o grade \o <<"_">> \o Replace(subject, " ")
        \o <<"_">> \o Format06d(n)

\* Question(...).model_dump(): the identifier and the requirements' grade and
\* subject, and the generated question's own fields, each copied as it is.
Question(deps, n, generated_question) ==
    [ question_id |-> QuestionId(deps.grade, deps.subject, n),
      grade |-> deps.grade,
      subject |-> deps.subject ] @@ generated_question

\* Faulty variant: the loop does not count up.
NextNumberSame(n) == n

\* max_number += 1 at the end of a turn of the loop.
NextNumber(n) == n + 1

\* One turn of the for loop: build the document, insert_one, max_number += 1.
InsertOne(f) ==
    /\ pc[f] = "insert"
    /\ todo[f] # <<>>
    /\ LET doc == Question(shared_deps[f], max_number[f], Head(todo[f]))
       IN  /\ questions' = Append(questions, doc)
           /\ inserted' = [inserted EXCEPT ![f] = Append(@, doc.question_id)]
    /\ max_number' = [max_number EXCEPT ![f] = NextNumber(@)]
    /\ todo' = [todo EXCEPT ![f] = Tail(@)]
    /\ UNCHANGED << pc, shared_deps, updated, retries, retry_prompt, validation,
                    final_question, result >>

\* The loop is over: return final_question.
ReturnFinalQuestion(f) ==
    /\ pc[f] = "insert"
    /\ todo[f] = <<>>
    /\ pc' = [pc EXCEPT ![f] = "returned"]
    /\ UNCHANGED << questions, shared_deps, updated, retries, retry_prompt, validation,
                    final_question, result, max_number, todo, inserted >>

\* The stages that await a model or the database.
Awaiting == {"extract", "generate", "validate", "aggregate", "insert"}

\* Faulty variant: a failed insert_one is swallowed and the loop goes on.
AwaitRaisesSwallowed(f) ==
    /\ pc[f] \in Awaiting
    /\ pc[f] = "insert" => todo[f] # <<>>
    /\ pc' = [pc EXCEPT ![f] = IF pc[f] = "insert" THEN "insert" ELSE "raised"]
    /\ todo' = [todo EXCEPT ![f] = IF pc[f] = "insert" THEN Tail(@) ELSE @]
    /\ UNCHANGED << questions, shared_deps, updated, retries, retry_prompt, validation,
                    final_question, result, max_number, inserted >>

\* Faulty variant: the exception is caught and the batch returned all the same.
AwaitReturns(f) ==
    /\ pc[f] \in Awaiting
    /\ pc[f] = "insert" => todo[f] # <<>>
    /\ pc' = [pc EXCEPT ![f] = "returned"]
    /\ UNCHANGED << questions, shared_deps, updated, retries, retry_prompt, validation,
                    final_question, result, max_number, todo, inserted >>

\* An awaited call raises (model error, store unreachable, insert rejected):
\* run_lumi_flow has no try, the exception leaves it.
AwaitRaises(f) ==
    /\ pc[f] \in Awaiting
    /\ pc[f] = "insert" => todo[f] # <<>>
    /\ pc' = [pc EXCEPT ![f] = "raised"]
    /\ UNCHANGED << questions, shared_deps, updated, retries, retry_prompt, validation,
                    final_question, result, max_number, todo, inserted >>

\* The invocation is over and its frame is gone; the slot is free again.
FrameDropped(f) ==
    /\ pc[f] \in {"returned", "raised"}
    /\ pc' = [pc EXCEPT ![f] = "idle"]
    /\ shared_deps' = [shared_deps EXCEPT ![f] = UserRequirements]
    /\ updated' = [updated EXCEPT ![f] = FALSE]
    /\ retries' = [retries EXCEPT ![f] = 0]
    /\ retry_prompt' = [retry_prompt EXCEPT ![f] = <<>>]
    /\ validation' = [validation EXCEPT ![f] = <<>>]
    /\ final_question' = [final_question EXCEPT ![f] = <<>>]
    /\ result' = [result EXCEPT ![f] = <<>>]
    /\ max_number' = [max_number EXCEPT ![f] = 0]
    /\ todo' = [todo EXCEPT ![f] = <<>>]
    /\ inserted' = [inserted EXCEPT ![f] = <<>>]
    /\ UNCHANGED << questions, script, lumi_vars, latex_vars, db_vars >>

\* What awaiting invocation f gives its caller: the value of return
\* final_question, or the exception that left run_lumi_flow.
RunLumiFlow(f) ==
    CASE pc[f] = "returned" -> [kind |-> "value", value |-> final_question[f]]
      [] pc[f] = "raised" -> [kind |-> "exception"]
      [] OTHER -> [kind |-> "pending"]

\* f"Successfully generated a quiz. Contains {len(quiz_data.questions)}
\* questions. Saved to MongoDB."
Summary(quiz_data) ==
    <<"Successfully generated a quiz. ", "Contains ">> \o DigitsOf(Len(quiz_data))
        \o <<" questions. Saved to MongoDB.">>

\* generate_quiz, from the await of run_lumi_flow on: it has no try, so an
\* exception leaves it as well; a QuestionBank is truthy whatever it holds
\* (a model instance defines neither __bool__ nor __len__); None is not.
GenerateQuiz(awaited) ==
    CASE awaited.kind = "exception" -> awaited
      [] awaited.kind = "value" -> [kind |-> "value", value |-> Summary(awaited.value)]
      [] awaited.kind = "none" ->
            [kind |-> "value",
             value |-> <<"I encountered an error while generating the quiz.">>]
      [] OTHER -> awaited

\* -------------------------------------------------------- run_lumi_system

\* Has text the character c?  (c in text)
HasChar(text, c) == \E i \in DOMAIN text : text[i] = c

\* Faulty variant: < and > are refused only beside an unescaped $.
ValidateLatexFormatUnescaped(text) ==
    LET dollars == { i \in DOMAIN text : text[i] = "$" /\ (i = 1 \/ text[i - 1] # "\\") }
    IN  IF Cardinality(dollars) % 2 # 0
        THEN << "Unbalanced LaTeX $ delimiters. Ensure every $ is closed." >>
        ELSE IF (HasChar(text, "<") \/ HasChar(text, ">")) /\ dollars # {}
             THEN << "Use \\lt or \\gt instead of < or > inside math blocks." >>
             ELSE <<>>

\* Faulty variant: the pattern without its lookbehind: every $ counts.
TotalDollarsAll(text) == Cardinality({ i \in DOMAIN text : text[i] = "$" })

\* len(re.findall(r'(?<!\\)\$', text)): the $ not preceded by a backslash.
TotalDollars(text) ==
    Cardinality({ i \in DOMAIN text :
                    text[i] = "$" /\ (i = 1 \/ text[i - 1] # "\\") })

Unbalanced == "Unbalanced LaTeX $ delimiters. Ensure every $ is closed."
UseLtGt == "Use \\lt or \\gt instead of < or > inside math blocks."

\* validate_latex_format(text): <<>> when it returns, else the message of the
\* ModelRetry it raises.
ValidateLatexFormat(text) ==
    IF TotalDollars(text) % 2 # 0 THEN << Unbalanced >>
    ELSE IF (\E i \in DOMAIN text : text[i] = "<") \/ (\E i \in DOMAIN text : text[i] = ">")
         THEN IF \E i \in DOMAIN text : text[i] = "$" THEN << UseLtGt >> ELSE <<>>
         ELSE <<>>

\* The texts the formatting check visits, in its order.
CheckedTexts(b) ==
    [ i \in 1..(2 * Len(b)) |->
        IF i % 2 = 1 THEN b[(i + 1) \div 2].question_text
        ELSE b[i \div 2].explanation ]

\* for q in bank.questions: validate_latex_format(q.question_text);
\* validate_latex_format(q.explanation) -- the first ModelRetry leaves the loop.
FormattingCheck(b) ==
    LET texts == CheckedTexts(b)
        bad == { i \in DOMAIN texts : ValidateLatexFormat(texts[i]) # <<>> }
    IN  IF bad = {} THEN <<>>
        ELSE ValidateLatexFormat(texts[CHOOSE i \in bad : \A j \in bad : i <= j])

\* Faulty variant: the test without upper().
HasFixCaseSensitive(output) == Contains(output, <<"F", "I", "X", ":">>)

\* "FIX:" in critique.output.upper()
HasFix(output) == Contains(Upper(output), <<"F", "I", "X", ":">>)

\* f"Logic Error: {critique.output}"
LogicError(output) == <<"Logic Error: ">> \o output

RECURSIVE ConvertAngles(_)
\* What the docstring of validate_latex_format speaks of and its code does
\* not do: < and > written as \lt and \gt.
ConvertAngles(text) ==
    IF text = <<>> THEN <<>>
    ELSE (CASE Head(text) = "<" -> <<"\\", "l", "t">>
            [] Head(text) = ">" -> <<"\\", "g", "t">>
            [] OTHER -> << Head(text) >>) \o ConvertAngles(Tail(text))

\* Faulty variant: the validator hands on the bank with its texts converted.
ReturnBankConverted(b) ==
    [ i \in DOMAIN b |->
        [ k \in DOMAIN b[i] |-> ConvertAngles(b[i][k]) ] ]

\* return bank: the object master_validation_loop was given.
ReturnBank(b) == b

\* run_lumi_system(topic): await tutor_agent.run(...)
StartLumi ==
    /\ script = "lumi_system"
    /\ lumi_pc = "idle"
    /\ lumi_pc' = "generate"
    /\ UNCHANGED << bank, lumi_retries, lumi_reason, critique, lumi_output >>

\* The tutor model is sent the request, with the retry message if there is
\* one, and answers with a QuestionBank: no question, or any number
\* up to MaxBatch with texts of at most MaxChars characters in all.
LumiGenerate ==
    /\ lumi_pc = "generate"
    /\ \/ bank' = <<>>
       \/ \E n \in 1..MaxBatch : \E s \in Strings : \E c \in Cuts(Len(s), 2 * n) :
            bank' = LumiQuestionBank(n, s, c)
    /\ critique' = <<>>
    /\ lumi_reason' = <<>>
    /\ lumi_pc' = "format"
    /\ UNCHANGED << lumi_retries, lumi_output >>

\* A ModelRetry(message) from the output validator: the bank is given up;
\* one more retry, or, past max_result_retries, an exception, which
\* run_lumi_system catches to return None.
LumiRetry(message) ==
    /\ lumi_retries' = lumi_retries + 1
    /\ lumi_reason' = message
    /\ lumi_pc' = IF Exceeded(lumi_retries + 1) THEN "none" ELSE "generate"
    /\ bank' = <<>>
    /\ UNCHANGED lumi_output

\* master_validation_loop, part 1: the formatting check.
FormatCheck ==
    /\ lumi_pc = "format"
    /\ LET e == FormattingCheck(bank)
       IN  IF e # <<>>
           THEN LumiRetry(e) /\ UNCHANGED critique
           ELSE /\ lumi_pc' = "review"
                /\ UNCHANGED << bank, lumi_retries, lumi_reason, critique, lumi_output >>

\* master_validation_loop, part 2: the reviewer's critique; return bank.
Review ==
    /\ lumi_pc = "review"
    /\ \E output \in ReviewTexts :
         /\ critique' = << output >>
         /\ IF HasFix(output)
            THEN LumiRetry(LogicError(output))
            ELSE /\ lumi_pc' = "returned"
                 /\ lumi_output' = << ReturnBank(bank) >>
                 /\ UNCHANGED << bank, lumi_retries, lumi_reason >>

\* An awaited model call raises: except Exception -> return None.
LumiAwaitRaises ==
    /\ lumi_pc \in {"generate", "review"}
    /\ lumi_pc' = "none"
    /\ bank' = <<>>
    /\ UNCHANGED << lumi_retries, lumi_reason, critique, lumi_output >>

LumiStep ==
    /\ \/ StartLumi
       \/ LumiGenerate
       \/ FormatCheck
       \/ Review
       \/ LumiAwaitRaises
    /\ UNCHANGED << script, flow_vars, latex_vars, db_vars >>

\* -------------------------------------------- validate_latex_format alone

\* A text is about to be given to validate_latex_format.
LatexInit ==
    /\ script = "validate_latex_format"
    /\ ScriptsIdle
    /\ DbNone
    /\ latex_text \in Texts
    /\ latex_pc = "call"
    /\ latex_raised = <<>>

\* validate_latex_format(latex_text): it returns, or raises a ModelRetry.
CallValidateLatexFormat ==
    /\ latex_pc = "call"
    /\ latex_raised' = ValidateLatexFormat(latex_text)
    /\ latex_pc' = IF latex_raised' = <<>> THEN "returned" ELSE "raised"
    /\ UNCHANGED << latex_text, script, lumi_vars, flow_vars, db_vars >>

LatexSpec == LatexInit /\ [][CallValidateLatexFormat]_vars

\* ------------------------------------------------------------ database.py

\* The class as imported: no call yet.
DbInit ==
    /\ script = "database"
    /\ ScriptsIdle
    /\ LatexIdle
    /\ DbNone

\* connect_db: a new client and its database handle are assigned to the
\* class, then the ping is awaited; when it fails the error is logged and
\* raised again, the two assignments stay.
ConnectDb ==
    /\ created < MaxClients
    /\ created' = created + 1
    /\ client' = created + 1
    /\ db' = created + 1
    /\ \E ping_ok \in BOOLEAN :
         /\ pinged' = IF ping_ok THEN pinged \cup {created + 1} ELSE pinged
         /\ db_outcome' =
              Outcome("connect_db", IF ping_ok THEN "returned" ELSE "raised", 0, "")
    /\ UNCHANGED closed

\* close_db: if cls.client: cls.client.close() -- neither attribute is reset.
CloseDb ==
    /\ closed' = IF client # 0 THEN closed \cup {client} ELSE closed
    /\ db_outcome' = Outcome("close_db", "returned", 0, "")
    /\ UNCHANGED << client, db, created, pinged >>

\* Faulty variant: a handle whose client was closed, or never answered the
\* ping, counts as missing.
NotConnectedOrUnusable(handle) ==
    handle = 0 \/ handle \in closed \/ handle \notin pinged

\* if cls.db is None
NotConnected(handle) == handle = 0

\* get_db(): RuntimeError, or the handle.
GetDb ==
    /\ db_outcome' =
          IF NotConnected(db) THEN Outcome("get_db", "raised", 0, "")
          ELSE Outcome("get_db", "returned", db, "")
    /\ UNCHANGED << client, db, created, pinged, closed >>

\* An accessor: MongoDB.get_db()[name] -- the RuntimeError of get_db passes
\* through it.
GetCollection ==
    /\ \E accessor \in DOMAIN Accessors :
         db_outcome' =
            IF NotConnected(db) THEN Outcome(accessor, "raised", 0, "")
            ELSE Outcome(accessor, "returned", db, Accessors[accessor])
    /\ UNCHANGED << client, db, created, pinged, closed >>

DbNext ==
    /\ \/ ConnectDb
       \/ CloseDb
       \/ GetDb
       \/ GetCollection
    /\ UNCHANGED << script, lumi_vars, flow_vars, latex_vars >>

DbSpec == DbInit /\ [][DbNext]_vars

\* One step of invocation f, the extractor drawing its arguments from Args,
\* the tutor its banks from Banks and the reviewer its answers from Verdicts.
FlowStep(f, Args, Verdicts, Banks) ==
    /\ \/ StartFlow(f)
       \/ UpdateRequirements(f, Args)
       \/ ExtractorReturns(f)
       \/ Generate(f, Banks)
       \/ ValidateQuestionRigor(f, Verdicts)
       \/ ReadMaxNumber(f)
       \/ InsertOne(f)
       \/ ReturnFinalQuestion(f)
       \/ AwaitRaises(f)
    /\ UNCHANGED << script, lumi_vars, latex_vars, db_vars >>

\* The run of one script; invocations of run_lumi_flow one at a time.
Next ==
    \/ LumiStep
    \/ FlowStep(1, UpdateArgs, ValidationResult, QuestionBank)
    \/ FrameDropped(1)

Spec == Init /\ [][Next]_vars

\* Two invocations against one bucket, overlapping: at each await either of
\* them may be the one that goes on.
RaceNext == \E f \in Flows : FlowStep(f, OneBucketArgs, PlainVerdicts, QuestionBank)

RaceSpec == Init /\ [][RaceNext]_vars

\* One invocation whose questions carry options and a correct_option.
OptionNext == FlowStep(1, OneBucketArgs, PlainVerdicts, OptionBank)

OptionSpec == Init /\ [][OptionNext]_vars

\* ------------------------------------------------------------ properties

\* The identifier the specification gives sequence number n (n < 10^6) in the
\* bucket (grade, subject): written out, not computed by QuestionId.
ExpectedId(grade, subject, n) ==
    LET d == DigitsOf(n) IN
    <<"G", "R", "_">> \o grade \o <<"_">>
        \o SelectSeq(subject, LAMBDA c : c # " ") \o <<"_">>
        \o [i \in 1..(6 - Len(d)) |-> "0"] \o d

\* The documents of the collection that were there before invocation f
\* inserted its own (invocations one at a time).
Before(f) == SubSeq(questions, 1, Len(questions) - Len(inserted[f]))

\* The largest sequence number of f's bucket among those, 1 for none.
BucketMax(f) ==
    LET docs == Before(f)
        nums == { NumericPart(docs[i].question_id) :
                    i \in { j \in DOMAIN docs :
                              /\ docs[j].grade = shared_deps[f].grade
                              /\ docs[j].subject = shared_deps[f].subject } }
    IN  IF nums = {} THEN 1 ELSE Max(nums)

\* C1: with M the largest sequence number of the bucket when the flow reads
\* it (1 for an empty bucket), the k-th question of the batch is stored, in
\* batch order and once, under GR_<grade>_<subject without spaces>_<M+k on six
\* digits>; two questions for grade 9, "A 1" and an empty bucket are stored as
\* GR_9_A1_000002 and GR_9_A1_000003.
C1_IdentifierAssignment ==
    LET f == 1
        n == Len(inserted[f])
        off == Len(questions) - n
    IN  /\ n <= Len(final_question[f])
        /\ pc[f] = "returned" => n = Len(final_question[f])
        /\ \A k \in 1..n :
             /\ inserted[f][k] =
                  ExpectedId(shared_deps[f].grade, shared_deps[f].subject,
                             BucketMax(f) + k)
             /\ questions[off + k].question_id = inserted[f][k]
             /\ questions[off + k].question_text = final_question[f][k].question_text
        /\ ( /\ pc[f] = "returned"
             /\ n = 2
             /\ shared_deps[f].grade = <<"9">>
             /\ shared_deps[f].subject = <<"A", " ", "1">>
             /\ result[f] = <<>> )
           => inserted[f] =
                << <<"G","R","_","9","_","A","1","_","0","0","0","0","0","2">>,
                   <<"G","R","_","9","_","A","1","_","0","0","0","0","0","3">> >>

\* A batch of two has been stored in a bucket that already held documents.
C1_Witness ==
    /\ pc[1] = "returned"
    /\ Len(inserted[1]) = 2
    /\ result[1] # <<>>
    /\ result[1][1].max_number = 2

\* C2: no two documents of the questions collection carry the same
\* question_id, whatever their buckets.
C2_UniqueIds ==
    \A i, j \in DOMAIN questions :
        i # j => questions[i].question_id # questions[j].question_id

\* C3: within one (grade, subject) bucket the sequence numbers strictly
\* increase in insertion order (invocations one at a time).
C3_BucketIncreasing ==
    \A i, j \in DOMAIN questions :
        ( /\ i < j
          /\ questions[i].grade = questions[j].grade
          /\ questions[i].subject = questions[j].subject )
        => NumericPart(questions[i].question_id)
             < NumericPart(questions[j].question_id)

\* A later invocation has added to a bucket an earlier one had filled, and
\* has itself inserted two documents.
C3_Witness ==
    /\ Len(inserted[1]) = 2
    /\ Len(questions) >= 3
    /\ \A i \in DOMAIN questions :
         /\ questions[i].grade = questions[1].grade
         /\ questions[i].subject = questions[1].subject

\* Invocation f has read the largest number of its bucket.
HasRead(f) == pc[f] \in {"insert", "returned"} \/ (pc[f] = "raised" /\ todo[f] # <<>>)

\* C4: two overlapping invocations for one bucket that read the same largest
\* number and each insert a document store the same question_id twice: the
\* number that follows the one both read.
C4_RaceDuplicates ==
    \A f, g \in Flows :
        ( /\ f # g
          /\ HasRead(f) /\ HasRead(g)
          /\ shared_deps[f].grade = shared_deps[g].grade
          /\ shared_deps[f].subject = shared_deps[g].subject
          /\ result[f] = result[g]
          /\ inserted[f] # <<>> /\ inserted[g] # <<>> )
        => /\ inserted[f][1] = inserted[g][1]
           /\ inserted[f][1] =
                ExpectedId(shared_deps[f].grade, shared_deps[f].subject, 2)
           /\ \E i, j \in DOMAIN questions :
                /\ i # j
                /\ questions[i].question_id = inserted[f][1]
                /\ questions[j].question_id = inserted[f][1]

\* Both invocations are in their loops, for grade 9 and "A 1", and the
\* collection holds one identifier twice.
C4_Witness ==
    /\ pc[1] = "insert" /\ pc[2] = "insert"
    /\ shared_deps[1].subject = <<"A", " ", "1">>
    /\ shared_deps[2].subject = <<"A", " ", "1">>
    /\ \E i, j \in DOMAIN questions :
         i # j /\ questions[i].question_id = questions[j].question_id

\* The insert of f's k-th question has failed, k = Len(inserted[f]) + 1.
InsertFailed(f) == pc[f] = "raised" /\ todo[f] # <<>>

\* C5: when the insert of the k-th question fails, the k-1 questions before it
\* are in the collection under their identifiers, the k-th and those after it
\* are not, and from then on the invocation neither inserts nor removes
\* anything: it has ended.  (A question is passed over in no other way: while
\* the loop runs, every question it has visited is inserted.)
C5_PartialWriteState ==
    LET f == 1
        n == Len(inserted[f])
        off == Len(questions) - n
    IN  /\ pc[f] \in {"insert", "returned"} =>
              n + Len(todo[f]) = Len(final_question[f])
        /\ InsertFailed(f) =>
          /\ n < Len(final_question[f])
          /\ n + Len(todo[f]) = Len(final_question[f])
          /\ off >= 0
          /\ \A k \in 1..n :
               /\ questions[off + k].question_id = inserted[f][k]
               /\ questions[off + k].question_text = final_question[f][k].question_text
               /\ inserted[f][k] =
                    ExpectedId(shared_deps[f].grade, shared_deps[f].subject,
                               BucketMax(f) + k)

C5_PartialWrite ==
    /\ []C5_PartialWriteState
    /\ [][ InsertFailed(1) =>
             /\ questions' = questions
             /\ pc'[1] \in {"raised", "idle"} ]_vars

\* The insert of the second question of a batch of two has failed.
C5_Witness ==
    /\ InsertFailed(1)
    /\ Len(inserted[1]) = 1
    /\ Len(final_question[1]) = 2

RECURSIVE UnescapedDollars(_, _)
\* The number of $ of text that no backslash precedes, prev being the
\* character before text ("" at the start).
UnescapedDollars(text, prev) ==
    IF text = <<>> THEN 0
    ELSE (IF Head(text) = "$" /\ prev # "\\" THEN 1 ELSE 0)
           + UnescapedDollars(Tail(text), Head(text))

OddDollars(text) == UnescapedDollars(text, "") % 2 = 1

\* The i-th text of bank b in the order question 1's text, its explanation,
\* question 2's text, ...
TextAt(b, i) ==
    IF i % 2 = 1 THEN b[(i + 1) \div 2].question_text ELSE b[i \div 2].explanation

\* Some question text or explanation of b has an odd number of unescaped $.
SomeOdd(b) == \E i \in 1..(2 * Len(b)) : OddDollars(TextAt(b, i))

\* A text before the first odd one has '<' or '>' together with a '$'.
AngleBeforeOdd(b) ==
    \E j \in 1..(2 * Len(b)) :
        /\ \A i \in 1..j : ~OddDollars(TextAt(b, i))
        /\ \E m \in DOMAIN TextAt(b, j) : TextAt(b, j)[m] \in {"<", ">"}
        /\ \E m \in DOMAIN TextAt(b, j) : TextAt(b, j)[m] = "$"

\* Every bank past the formatting check has an even number of unescaped $ in
\* each question text and explanation.
PassedIsBalanced ==
    lumi_pc \in {"review", "returned"} =>
        \A i \in 1..(2 * Len(bank)) : ~OddDollars(TextAt(bank, i))

LumiMeasure ==
    CASE lumi_pc = "idle" -> 3 * (max_result_retries + 2) + 3
      [] lumi_pc \in {"returned", "none"} -> 0
      [] OTHER -> 3 * (max_result_retries + 2 - lumi_retries)
                    + (CASE lumi_pc = "generate" -> 2
                         [] lumi_pc = "format" -> 1
                         [] OTHER -> 0)

\* What is left to do in invocation f of run_lumi_flow.
FlowMeasure(f) ==
    CASE pc[f] = "insert" -> 1 + Len(todo[f])
      [] pc[f] = "aggregate" -> MaxBatch + 2
      [] pc[f] = "validate" -> MaxBatch + 3 + 2 * (max_result_retries + 1 - retries[f])
      [] pc[f] = "generate" -> MaxBatch + 4 + 2 * (max_result_retries + 1 - retries[f])
      [] pc[f] = "extract" ->
            MaxBatch + 5 + 2 * (max_result_retries + 1) + (IF updated[f] THEN 0 ELSE 1)
      [] OTHER -> 0

\* The retry counters stay within the configured maximum, the generator is
\* asked again only while retries remain, and a run whose every attempt was
\* rejected has failed with nothing stored or returned.
RetriesBounded ==
    /\ lumi_retries <= max_result_retries + 1
    /\ lumi_pc \in {"generate", "format", "review"} => lumi_retries <= max_result_retries
    /\ lumi_retries > max_result_retries => lumi_pc = "none" /\ lumi_output = <<>>
    /\ \A f \in Flows :
         /\ retries[f] <= max_result_retries + 1
         /\ pc[f] \in {"generate", "validate"} => retries[f] <= max_result_retries
         /\ retries[f] > max_result_retries =>
              pc[f] = "raised" /\ inserted[f] = <<>> /\ todo[f] = <<>>

\* C7: the generate-validate loop is bounded by the maximum retry count; every
\* step of a run brings it nearer its end (so it terminates); when every
\* attempt is rejected the run fails and nothing is stored.
C7_BoundedLoop ==
    /\ []RetriesBounded
    /\ [][ /\ lumi_pc \notin {"returned", "none"} /\ lumi_pc' # lumi_pc
                => LumiMeasure' < LumiMeasure
           /\ \A f \in Flows :
                (pc[f] \in Awaiting /\ << pc[f], updated[f], todo[f] >>
                                        # << pc'[f], updated'[f], todo'[f] >>)
                => FlowMeasure(f)' < FlowMeasure(f) ]_vars

\* Both attempts of run_lumi_system were rejected, the last for an unbalanced
\* $: it returned None.
C7_Witness ==
    /\ lumi_pc = "none"
    /\ lumi_retries = max_result_retries + 1
    /\ lumi_reason = << Unbalanced >>
    /\ lumi_output = <<>>

\* s holds "FIX:" in some mix of upper and lower case.
SaysFix(s) ==
    \E i \in 1..(Len(s) - 3) :
        /\ s[i] \in {"F", "f"}
        /\ s[i + 1] \in {"I", "i"}
        /\ s[i + 2] \in {"X", "x"}
        /\ s[i + 3] = ":"

\* master_validation_loop: the bank is rejected exactly when the critique says
\* FIX:, and the retry message then ends with the critique, word for word.
LumiSentinelDecides ==
    critique # <<>> =>
        IF SaysFix(critique[1])
        THEN /\ lumi_pc \in {"generate", "none"}
             /\ lumi_reason = <<"Logic Error: ">> \o critique[1]
             /\ lumi_output = <<>>
        ELSE /\ lumi_pc = "returned"
             /\ lumi_reason = <<>>
             /\ lumi_output = << bank >>

\* C8 (as stated): in both validators the batch is rejected exactly when the
\* reviewer's answer holds the sentinel.
C8_SentinelDecides ==
    /\ LumiSentinelDecides
    /\ \A f \in Flows :
         validation[f] # <<>> =>
            (retry_prompt[f] # <<>> <=> SaysFix(validation[f][1].error_message))

\* C8 (amended): that is so in master_validation_loop; validate_question_rigor
\* rejects exactly when the reviewer's is_valid is false, whatever the text,
\* and the retry message ends with the reviewer's error_message.
C8_SentinelInLumiOnly ==
    /\ LumiSentinelDecides
    /\ \A f \in Flows :
         validation[f] # <<>> =>
            IF validation[f][1].is_valid
            THEN retry_prompt[f] = <<>> /\ pc[f] \in {"aggregate", "raised"}
            ELSE /\ retry_prompt[f] =
                      <<"Validation failed: ">> \o validation[f][1].error_message
                 /\ pc[f] \in {"generate", "raised"}

\* The reviewer answered "fix:" in lower case and the bank was rejected.
C8_Witness ==
    /\ critique = << <<"f", "i", "x", ":">> >>
    /\ lumi_pc = "generate"
    /\ lumi_reason = <<"Logic Error: ", "f", "i", "x", ":">>

\* The reference update_requirements leaves for (grade, subject): the
\* curriculum's, if a record for the pair carries one; else the extracted one.
ExpectedReference(args) ==
    IF \E i \in DOMAIN Curriculum :
          /\ Curriculum[i].grade = args.grade
          /\ Curriculum[i].subject = args.subject
          /\ "reference" \in DOMAIN Curriculum[i]
    THEN LET i == CHOOSE i \in DOMAIN Curriculum :
                    /\ Curriculum[i].grade = args.grade
                    /\ Curriculum[i].subject = args.subject
                    /\ "reference" \in DOMAIN Curriculum[i]
         IN  Curriculum[i].reference
    ELSE args.reference

\* C9: a call of update_requirements leaves in the requirements the extracted
\* values, except that the reference is the curriculum record's when a record
\* for (grade, subject) carries one.
C9_UpdateRequirements ==
    [][ \A f \in Flows :
          (~updated[f] /\ updated'[f]) =>
            \E args \in UpdateArgs :
              /\ \A k \in DOMAIN args \ {"reference"} : shared_deps'[f][k] = args[k]
              /\ shared_deps'[f].reference = ExpectedReference(args)
              /\ (args.grade = <<"9">> /\ args.subject = <<"A", " ", "1">>)
                   => shared_deps'[f].reference = "syllabus"
              /\ (args.grade # <<"9">> \/ args.subject # <<"A", " ", "1">>)
                   => shared_deps'[f].reference = "extracted" ]_vars

\* The requirements were updated for a pair whose curriculum record carries a
\* reference.
C9_Witness ==
    /\ updated[1]
    /\ shared_deps[1].subject = <<"A", " ", "1">>
    /\ shared_deps[1].grade = <<"9">>
    /\ shared_deps[1].reference = "syllabus"

\* C10: the batch handed to persistence holds exactly number_of_questions
\* questions.
C10_ExactCount ==
    \A f \in Flows :
        pc[f] \in {"aggregate", "insert", "returned"}
        => Len(final_question[f]) = shared_deps[f].number_of_questions

\* The labels of a correct_option: its pieces between the commas.
Labels(correct_option) ==
    LET parts == Split(correct_option, ",") IN { parts[i] : i \in DOMAIN parts }

\* Every label of d's correct_option is the id of one of d's options, and no
\* two options of d have the same id.
OptionsConsistent(d) ==
    /\ \A l \in Labels(d.correct_option) :
         \E i \in DOMAIN d.options : d.options[i].id = l
    /\ \A i, j \in DOMAIN d.options :
         i # j => d.options[i].id # d.options[j].id

\* C11: in every batch the validator accepted, and so in every stored
\* question, each label of the comma-joined correct_option is the id of one
\* of the question's options and the option ids of a question are distinct.
C11_OptionsConsistent ==
    /\ \A f \in Flows :
         pc[f] \in {"aggregate", "insert", "returned"} =>
            \A k \in DOMAIN final_question[f] :
                OptionsConsistent(final_question[f][k])
    /\ \A i \in DOMAIN questions : OptionsConsistent(questions[i])

\* Invocation f has ended in failure, and its caller generate_quiz with it.
FailureSurfaced(f) ==
    pc[f] = "raised" =>
        /\ RunLumiFlow(f) = [kind |-> "exception"]
        /\ GenerateQuiz(RunLumiFlow(f)) = [kind |-> "exception"]

\* Invocation f returns a batch only when every stage has gone through: the
\* batch was accepted within the retries, the largest number was read, and
\* each question of the batch was inserted; generate_quiz then reports it.
SuccessIsWhole(f) ==
    pc[f] = "returned" =>
        /\ retries[f] <= max_result_retries
        /\ max_number[f] >= 2
        /\ todo[f] = <<>>
        /\ Len(inserted[f]) = Len(final_question[f])
        /\ RunLumiFlow(f) = [kind |-> "value", value |-> final_question[f]]
        /\ GenerateQuiz(RunLumiFlow(f)).kind = "value"
        /\ GenerateQuiz(RunLumiFlow(f)).value[1] = "Successfully generated a quiz. "

\* run_lumi_system returns None for a failure and a bank that went through
\* both checks otherwise.
LumiFailureSurfaced ==
    /\ lumi_pc = "none" => lumi_output = <<>>
    /\ lumi_pc = "returned" =>
          /\ lumi_output = << bank >>
          /\ lumi_retries <= max_result_retries
          /\ critique # <<>> /\ ~SaysFix(critique[1])
    /\ lumi_output # <<>> => lumi_pc = "returned"

StageOrder ==
    { <<"idle", "extract">>, <<"extract", "generate">>, <<"generate", "validate">>,
      <<"validate", "generate">>, <<"validate", "aggregate">>,
      <<"aggregate", "insert">>, <<"insert", "returned">>,
      <<"returned", "idle">>, <<"raised", "idle">> }
      \cup { << st, "raised" >> : st \in Awaiting }

\* What has happened so far agrees with the stage the invocation is in.
StagesInOrder(f) ==
    /\ updated[f] => pc[f] # "idle"
    /\ pc[f] \in {"idle", "extract", "generate", "validate", "aggregate"} =>
          /\ max_number[f] = 0 /\ result[f] = <<>>
          /\ todo[f] = <<>> /\ inserted[f] = <<>>
    /\ pc[f] \in {"idle", "extract"} => final_question[f] = <<>> /\ retries[f] = 0
    /\ inserted[f] # <<>> => max_number[f] >= 2 + Len(inserted[f])

\* C13: the stages of an invocation follow one another in the order
\* extraction (with its lookup), generation, validation (with its retries),
\* read of the largest number, inserts: the read comes only after the
\* validator accepted the batch, no insert comes before the read, and a step
\* does the work of one stage only.
C13_StageOrder ==
    /\ [](\A f \in Flows : StagesInOrder(f))
    /\ [][ /\ \A f \in Flows :
                /\ pc'[f] # pc[f] => << pc[f], pc'[f] >> \in StageOrder
                /\ (~updated[f] /\ updated'[f]) => pc[f] = "extract" /\ pc'[f] = "extract"
                /\ (pc'[f] # "idle" /\ shared_deps'[f] # shared_deps[f]) =>
                      pc[f] \in {"idle", "extract"}
                /\ (pc'[f] # "idle" /\ final_question'[f] # final_question[f]) =>
                      pc[f] = "generate" /\ pc'[f] = "validate"
                /\ (pc[f] # "aggregate" /\ pc'[f] = "aggregate") =>
                      /\ pc[f] = "validate"
                      /\ validation'[f] # <<>> /\ validation'[f][1].is_valid
                      /\ final_question'[f] = final_question[f]
                /\ (pc'[f] # "idle" /\ max_number'[f] # max_number[f]) =>
                      \/ pc[f] = "aggregate" /\ pc'[f] = "insert" /\ questions' = questions
                      \/ /\ pc[f] = "insert" /\ pc'[f] = "insert"
                         /\ Len(questions') = Len(questions) + 1
                /\ (pc'[f] # "idle" /\ inserted'[f] # inserted[f]) =>
                      /\ pc[f] = "insert" /\ pc'[f] = "insert"
                      /\ questions' = Append(questions, questions'[Len(questions')])
           /\ questions' # questions =>
                 \E g \in Flows : pc[g] = "insert" /\ Len(inserted'[g]) = Len(inserted[g]) + 1
         ]_vars

\* After a retry the batch was accepted, the largest number read, and the
\* first of two questions inserted.
C13_Witness ==
    /\ pc[1] = "insert"
    /\ updated[1]
    /\ retries[1] = 1
    /\ Len(inserted[1]) = 1
    /\ Len(todo[1]) = 1

\* C14: a successful invocation returns the validated batch and, with each
\* question of it, the identifier the question was stored under.
C14_ReturnsIdentifiers ==
    \A f \in Flows :
        pc[f] = "returned" =>
            LET returned == RunLumiFlow(f).value IN
            /\ Len(returned) = Len(final_question[f])
            /\ \A k \in DOMAIN returned :
                 /\ returned[k].question_text = final_question[f][k].question_text
                 /\ "question_id" \in DOMAIN returned[k]
                 /\ returned[k].question_id = inserted[f][k]

\* C15: in every state of an invocation the requirements have
\* number_of_questions >= 1, a grade among the Grade values and a difficulty
\* among the QuestionDifficulty values.
C15_RequirementsValid ==
    \A f \in Flows :
        /\ shared_deps[f].number_of_questions >= 1
        /\ shared_deps[f].grade \in Grade
        /\ shared_deps[f].difficulty \in QuestionDifficulty

\* C16: an invocation whose extractor run ended without a call of
\* update_requirements does not go on to generation or persistence with the
\* default requirements.
C16_NoGenerationOnDefaults ==
    \A f \in Flows :
        pc[f] \in {"generate", "validate", "aggregate", "insert", "returned"}
        => updated[f] /\ shared_deps[f] # UserRequirements

\* Some text of bank b holds a '<'.
HasAngle(b) ==
    \E i \in 1..(2 * Len(b)) : \E m \in DOMAIN TextAt(b, i) : TextAt(b, i)[m] = "<"

HandleReaders ==
    { "get_db", "get_sessions_collection", "get_messages_collection",
      "get_short_term_memory_collection", "get_progress_collection",
      "get_questions_collection", "get_quiz_sessions_collection",
      "get_subjects_collection", "get_curriculum_collection",
      "get_quizzes_collection" }

\* A reader raised exactly when no connect_db call had assigned the handle;
\* otherwise it returned the handle (the accessor its collection of it),
\* whether or not the ping had been answered or the client closed since.
ReadersFollowHandle ==
    /\ db = 0 <=> created = 0
    /\ db_outcome.call \in HandleReaders =>
          /\ db_outcome.kind = "raised" <=> created = 0
          /\ db_outcome.kind = "returned" <=> db # 0
          /\ db_outcome.kind = "returned" => db_outcome.handle = db
          /\ db_outcome.call = "get_questions_collection" /\ db # 0
                => db_outcome.name = "questions"
          /\ db_outcome.call = "get_curriculum_collection" /\ db # 0
                => db_outcome.name = "curriculum"

\* C19: get_db and the accessors raise RuntimeError if and only if no
\* connect_db call has assigned MongoDB.db; once assigned the handle is never
\* cleared: a connect_db whose ping failed has assigned it all the same, and
\* close_db leaves it, so get_db still returns it afterwards.
C19_HandleLifecycle ==
    /\ []ReadersFollowHandle
    /\ [][ /\ db # 0 => db' # 0
           /\ created' # created =>
                 /\ db_outcome'.call = "connect_db"
                 /\ db' = created' /\ client' = created'
           /\ db_outcome'.call = "close_db" => db' = db /\ client' = client
         ]_vars

\* The ping of the only connect_db failed and close_db closed the client:
\* get_questions_collection still returned the collection of the handle.
C19_Witness ==
    /\ created = 1
    /\ pinged = {}
    /\ closed = {1}
    /\ db_outcome = Outcome("get_questions_collection", "returned", 1, "questions")

====
